---- MODULE Spec2Model ----
(***************************************************************************)
(* The Leitner scheduler of dicrs (src/src/leitner.rs): a SQLite table of  *)
(* cards, three index-aligned in-memory vectors mirroring it, a selection  *)
(* cursor, and the review state machine.                                   *)
(*                                                                         *)
(* NaiveDate values are day numbers (days since 1970-01-01); the text the  *)
(* table stores, "%Y-%m-%d", is the triple <<year, month, day>>.           *)
(* usize is modelled 30 bits wide (TLC's integers have 32): only the wrap  *)
(* of 0 - 1 depends on the width.                                          *)
(***************************************************************************)
EXTENDS Integers, Sequences, FiniteSets, TLC

\* ------------------------------------------------------------------ bounds

\* Cards in the table when the session starts.
InitCards == 1
\* Cards ever created (loaded at start or added) in one session.
MaxCreated == 2
\* Days the session lasts after its first day.
MaxDay == 1
\* The same two bounds for SpecWide, the sessions with room for three cards.
WideInitCards == 2
WideMaxCreated == 3

\* --------------------------------------------------------------- constants

USIZE_MAX == 2^30 - 1

\* The dictionary entries the caller may hand to add: text is a sequence of
\* characters.
Entries ==
    << [word |-> "cat", definition |-> <<"c", "\r", "d">>],
       [word |-> "dog", definition |-> <<"e">>] >>

\* The deltas the caller passes to update_index_by.
Deltas == {-5, -1, 1, 5}

\* The faults the SQLite connection can raise in one call.
Faults == {"none", "read", "write"}

\* ------------------------------------------------------------------- dates

\* review_date.format("%Y-%m-%d"): the civil date of a day number.
FormatDate(date) ==
    LET z    == date + 719468
        era  == z \div 146097
        doe  == z - era * 146097
        yoe  == (doe - doe \div 1460 + doe \div 36524 - doe \div 146096) \div 365
        doy  == doe - (365 * yoe + yoe \div 4 - yoe \div 100)
        mp   == (5 * doy + 2) \div 153
        d    == doy - (153 * mp + 2) \div 5 + 1
        m    == IF mp < 10 THEN mp + 3 ELSE mp - 9
        y    == yoe + era * 400 + (IF m <= 2 THEN 1 ELSE 0)
    IN  <<y, m, d>>

\* NaiveDate::parse_from_str(text, "%Y-%m-%d"): the day number of a civil date.
ParseDate(text) ==
    LET y    == text[1] - (IF text[2] <= 2 THEN 1 ELSE 0)
        era  == y \div 400
        yoe  == y - era * 400
        mp   == IF text[2] > 2 THEN text[2] - 3 ELSE text[2] + 9
        doy  == (153 * mp + 2) \div 5 + text[3] - 1
        doe  == yoe * 365 + yoe \div 4 - yoe \div 100 + doy
    IN  era * 146097 + doe - 719468

\* The first day of the session, chrono::Local::now().date_naive(): chosen so
\* that the due dates of the session cross the end of a leap February.
FirstDay == ParseDate(<<2024, 2, 26>>)

\* ------------------------------------------------------------------- state

VARIABLES
    cards,           \* the table: ROWID -> [word, definition, box, next_review, attempts, uid]
    selected_index,
    word_index,
    review_due,
    box_level,
    today,           \* chrono::Local::now().date_naive()
    panicked,        \* the process was aborted by a panic
    held,            \* history: the uid of the card each in-memory position was created for
    created,         \* history: the number of cards created so far (the source of uids)
    call,            \* history: the last operation called and the path it took
    ret,             \* the value the last operation returned
    cap              \* the cards this session may create: a bound, fixed at the start

vars == <<cards, selected_index, word_index, review_due, box_level, today,
          panicked, held, created, call, ret, cap>>

mem == <<selected_index, word_index, review_due, box_level, held>>

\* ------------------------------------------------------------ return values

Ok == [tag |-> "Ok", val |-> <<>>]
Err(e) == [tag |-> "Err", val |-> <<e>>]
Unit == [tag |-> "unit", val |-> <<>>]
Text(s) == [tag |-> "String", val |-> s]

Called(op, path) == [op |-> op, path |-> path]

\* ------------------------------------------------------------ the table

RECURSIVE Ascending(_)
\* The elements of a finite set of integers, smallest first.
Ascending(S) ==
    IF S = {} THEN <<>>
    ELSE LET m == CHOOSE x \in S : \A y \in S : x <= y
         IN  <<m>> \o Ascending(S \ {m})

\* SELECT ... FROM cards: the rows in ROWID order.
SelectAll(table) ==
    LET ids == Ascending(DOMAIN table)
    IN  [i \in 1..Len(ids) |-> table[ids[i]]]

\* The ROWID an INSERT gives a row of an INTEGER PRIMARY KEY table (no
\* AUTOINCREMENT): one more than the largest ROWID in the table.
NewRowid(table) ==
    IF DOMAIN table = {} THEN 1
    ELSE 1 + (CHOOSE x \in DOMAIN table : \A y \in DOMAIN table : y <= x)

\* Insert as it would be if attempts did not take its DEFAULT 0.
Insert_attemptsOne(table, word, definition, next_review, uid) ==
    LET id == NewRowid(table)
    IN  [r \in DOMAIN table \cup {id} |->
            IF r = id
            THEN [word |-> word, definition |-> definition, box |-> 1,
                  next_review |-> next_review, attempts |-> 1, uid |-> uid]
            ELSE table[r]]

\* INSERT INTO cards (word, definition, box, next_review) VALUES (?1, ?2, 1, ?3);
\* attempts takes its DEFAULT 0.
Insert(table, word, definition, next_review, uid) ==
    LET id == NewRowid(table)
    IN  [r \in DOMAIN table \cup {id} |->
            IF r = id
            THEN [word |-> word, definition |-> definition, box |-> 1,
                  next_review |-> next_review, attempts |-> 0, uid |-> uid]
            ELSE table[r]]

\* Delete as it would be if the parameter were selected_index, not selected_index + 1.
Delete_positionAsRowid(table, rowid) == [r \in DOMAIN table \ {rowid - 1} |-> table[r]]

\* DELETE FROM cards WHERE ROWID = ?1
Delete(table, rowid) == [r \in DOMAIN table \ {rowid} |-> table[r]]

\* UPDATE cards SET box = ?1, next_review = ?2, attempts = ?3 WHERE ROWID = ?4
Update(table, rowid, box, next_review, attempts) ==
    [table EXCEPT ![rowid].box = box,
                  ![rowid].next_review = next_review,
                  ![rowid].attempts = attempts]

\* ------------------------------------------------------------- Leitner::new

\* What Leitner::new reads from the table.
LoadWords(table) == LET rows == SelectAll(table) IN [i \in DOMAIN rows |-> rows[i].word]
LoadDue(table) ==
    LET rows == SelectAll(table) IN [i \in DOMAIN rows |-> ParseDate(rows[i].next_review)]
LoadBoxes(table) == LET rows == SelectAll(table) IN [i \in DOMAIN rows |-> rows[i].box]
LoadHeld(table) == LET rows == SelectAll(table) IN [i \in DOMAIN rows |-> rows[i].uid]

\* The entry the i-th card of the starting table was added from.
InitEntry(i) == Entries[((i - 1) % Len(Entries)) + 1]

\* The tables a session can start from: at most max rows, 1..n, as earlier
\* sessions left them, every card due on the first day.
InitTables(max) ==
    UNION { { [r \in 1..n |->
                 [word |-> InitEntry(r).word, definition |-> InitEntry(r).definition,
                  box |-> b[r], next_review |-> FormatDate(FirstDay),
                  attempts |-> a[r], uid |-> r]] :
              b \in [1..n -> 1..5], a \in [1..n -> 0..1] } :
            n \in 0..max }

\* Leitner::new on a table of at most max rows, in a session that may create
\* limit cards.
New(max, limit) ==
    /\ cap = limit
    /\ cards \in InitTables(max)
    /\ selected_index = 0
    /\ word_index = LoadWords(cards)
    /\ review_due = LoadDue(cards)
    /\ box_level = LoadBoxes(cards)
    /\ held = LoadHeld(cards)
    /\ created = Cardinality(DOMAIN cards)
    /\ today = FirstDay
    /\ panicked = FALSE
    /\ call = Called("new", "loaded")
    /\ ret = Ok

Init == New(InitCards, MaxCreated)
InitWide == New(WideInitCards, WideMaxCreated)

\* The calendar day changes.
Tick ==
    /\ ~panicked
    /\ today < FirstDay + MaxDay
    /\ today' = today + 1
    /\ call' = Called("tick", "day")
    /\ ret' = Unit
    /\ UNCHANGED <<cards, mem, panicked, created, cap>>

\* ------------------------------------------------------------ Leitner::next

RECURSIVE Scan(_, _, _)
\* The while loop of next: from position i (0-based), step forward while i is
\* before the last position and the date at i is after day.
Scan(i, due, day) ==
    IF i < Len(due) - 1
    THEN IF due[i + 1] <= day THEN i ELSE Scan(i + 1, due, day)
    ELSE i

next ==
    /\ ~panicked
    /\ selected_index' =
          IF word_index = <<>> THEN selected_index
          ELSE Scan(selected_index, review_due, today)
    /\ call' = Called("next", IF word_index = <<>> THEN "empty" ELSE "scan")
    /\ ret' = Unit
    /\ UNCHANGED <<cards, word_index, review_due, box_level, held, today, panicked, created, cap>>

\* ------------------------------------------------- Leitner::update_index_by

\* usize as i32: the low 32 bits, read as a signed number.
AsI32(u) == IF u = USIZE_MAX THEN -1 ELSE u

\* Ord::clamp, which asserts min <= max.
Clamp(x, min, max) == IF x < min THEN min ELSE IF x > max THEN max ELSE x

update_index_by(i) ==
    /\ ~panicked
    /\ \/ /\ 0 <= Len(word_index) - 1
          /\ selected_index' = Clamp(AsI32(selected_index) + i, 0, Len(word_index) - 1)
          /\ call' = Called("update_index_by", "clamped")
          /\ ret' = Unit
          /\ UNCHANGED panicked
       \/ /\ ~(0 <= Len(word_index) - 1)      \* clamp's assertion fails
          /\ panicked' = TRUE
          /\ call' = Called("update_index_by", "panic")
          /\ UNCHANGED <<selected_index, ret>>
    /\ UNCHANGED <<cards, word_index, review_due, box_level, held, today, created, cap>>

\* ------------------------------------------------------------- Leitner::add

\* add as it would be if the push onto box_level were forgotten.
add_noBoxPush(word, definition, fault) ==
    /\ ~panicked
    /\ fault = "none"
    /\ created < cap
    /\ cards' = Insert(cards, word, definition, FormatDate(today + 1), created + 1)
    /\ word_index' = Append(word_index, word)
    /\ review_due' = Append(review_due, today + 1)
    /\ held' = Append(held, created + 1)
    /\ created' = created + 1
    /\ call' = Called("add", "inserted")
    /\ ret' = Ok
    /\ UNCHANGED <<box_level, selected_index, today, panicked, cap>>

\* add as it would be if it pushed onto the vectors before the INSERT.
add_mirrorThenWrite(word, definition, fault) ==
    /\ ~panicked
    /\ fault \in {"none", "write"}
    /\ created < cap
    /\ word_index' = Append(word_index, word)
    /\ review_due' = Append(review_due, today + 1)
    /\ box_level' = Append(box_level, 1)
    /\ held' = Append(held, created + 1)
    /\ created' = created + 1
    /\ IF fault = "none"
       THEN /\ cards' = Insert(cards, word, definition, FormatDate(today + 1), created + 1)
            /\ call' = Called("add", "inserted")
            /\ ret' = Ok
       ELSE /\ cards' = cards
            /\ call' = Called("add", "writefail")
            /\ ret' = Err("SqliteFailure")
    /\ UNCHANGED <<selected_index, today, panicked, cap>>

add(word, definition, fault) ==
    /\ ~panicked
    /\ LET review_date == today + 1
       IN  \/ /\ fault = "none"
              /\ created < cap
              /\ cards' = Insert(cards, word, definition, FormatDate(review_date), created + 1)
              /\ word_index' = Append(word_index, word)
              /\ review_due' = Append(review_due, review_date)
              /\ box_level' = Append(box_level, 1)
              /\ held' = Append(held, created + 1)
              /\ created' = created + 1
              /\ call' = Called("add", "inserted")
              /\ ret' = Ok
           \/ /\ fault = "write"
              /\ call' = Called("add", "writefail")
              /\ ret' = Err("SqliteFailure")
              /\ UNCHANGED <<cards, word_index, review_due, box_level, held, created>>
    /\ UNCHANGED <<selected_index, today, panicked, cap>>

\* -------------------------------------------------- Leitner::get_definition

NotFound == <<"N", "o", "t", " ", "f", "o", "u", "n", "d", "!">>

\* def.replace('\r', "\n")
ReplaceCR(def) == [k \in DOMAIN def |-> IF def[k] = "\r" THEN "\n" ELSE def[k]]

get_definition(i, fault) ==
    /\ ~panicked
    /\ \/ /\ fault = "none"
          /\ i < USIZE_MAX
          /\ ret' = IF i + 1 \in DOMAIN cards
                    THEN Text(ReplaceCR(cards[i + 1].definition))
                    ELSE Text(NotFound)
          /\ call' = Called("get_definition",
                            IF i + 1 \in DOMAIN cards THEN "found" ELSE "notfound")
          /\ UNCHANGED panicked
       \/ /\ fault = "none"
          /\ i = USIZE_MAX                    \* i + 1 wraps to 0 (release build)
          /\ ret' = IF 0 \in DOMAIN cards
                    THEN Text(ReplaceCR(cards[0].definition))
                    ELSE Text(NotFound)
          /\ call' = Called("get_definition", "wrapped")
          /\ UNCHANGED panicked
       \/ /\ \/ fault = "read"                \* prepare(..).unwrap(), row.unwrap()
             \/ fault = "none" /\ i = USIZE_MAX   \* i + 1 overflows (debug build)
          /\ panicked' = TRUE
          /\ call' = Called("get_definition", "panic")
          /\ UNCHANGED ret
    /\ UNCHANGED <<cards, mem, today, created, cap>>

\* ---------------------------------------------------------- Leitner::review

\* INTERVALS with a wrong entry for box 4.
INTERVALS_wrongBox4 == <<1, 2, 4, 8, 10>>

\* static INTERVALS: [u8; 5], read at [(new_box - 1) as usize]
INTERVALS == <<1, 2, 4, 6, 10>>

\* NewBox as it would be if the first failure already demoted.
NewBox_firstFailureDemotes(success, current_box, attempts) ==
    IF success THEN current_box + 1
    ELSE IF attempts + 1 >= 1 /\ current_box > 1 THEN current_box - 1
    ELSE current_box

\* The box the review moves the card to.
NewBox(success, current_box, attempts) ==
    IF success THEN current_box + 1
    ELSE IF attempts + 1 >= 2 /\ current_box > 1 THEN current_box - 1
    ELSE current_box

\* NewAttempts as it would be if a promotion kept the count.
NewAttempts_keptOnPromotion(success, current_box, attempts) ==
    IF success THEN attempts
    ELSE IF attempts + 1 >= 2 /\ current_box > 1 THEN 0
    ELSE attempts + 1

\* NewAttempts as it would be if a failure that keeps the box were not counted.
NewAttempts_notCounted(success, current_box, attempts) ==
    IF success THEN 0
    ELSE IF attempts + 1 >= 2 /\ current_box > 1 THEN 0
    ELSE attempts

\* The attempts the review stores.
NewAttempts(success, current_box, attempts) ==
    IF success THEN 0
    ELSE IF attempts + 1 >= 2 /\ current_box > 1 THEN 0
    ELSE attempts + 1

\* The path of the transition rule, for the history.
Path(success, current_box, attempts) ==
    IF success THEN "promote"
    ELSE IF attempts + 1 >= 2 /\ current_box > 1 THEN "demote"
    ELSE "retry"

\* NotDue as it would be if the gate were a day late.
NotDue_dayLate(review_date, day) == review_date > day + 1

\* review_date > today: the card is not due.
NotDue(review_date, day) == review_date > day

\* NextReview as it would be if the interval were counted from yesterday.
NextReview_fromYesterday(day, new_box) == day - 1 + INTERVALS[(new_box - 1) + 1]

\* today + chrono::Duration::days(INTERVALS[new_box - 1])
NextReview(day, new_box) == day + INTERVALS[(new_box - 1) + 1]

\* Vec::remove(index), index 0-based.
Remove(vec, index) ==
    [k \in 1..(Len(vec) - 1) |-> IF k <= index THEN vec[k] ELSE vec[k + 1]]

\* InvalidQuery as it would be if the out-of-range call were silently ignored.
InvalidQuery_ignored == Ok

\* InvalidQuery as it would be if it were the error of a missing row.
InvalidQuery_asNoRows == Err("QueryReturnedNoRows")

\* Err(rusqlite::Error::InvalidQuery), the else branch of review.
InvalidQuery == Err("InvalidQuery")

review(success, fault) ==
    /\ ~panicked
    /\ \/ /\ ~(selected_index < Len(word_index))
          /\ call' = Called("review", "range")
          /\ ret' = InvalidQuery
          /\ UNCHANGED <<cards, mem, panicked>>
       \/ /\ selected_index < Len(word_index)
          /\ fault = "read"
          /\ call' = Called("review", "readfail")
          /\ ret' = Err("SqliteFailure")
          /\ UNCHANGED <<cards, mem, panicked>>
       \/ /\ selected_index < Len(word_index)
          /\ fault # "read"
          /\ selected_index + 1 \notin DOMAIN cards
          /\ call' = Called("review", "norow")
          /\ ret' = Err("QueryReturnedNoRows")
          /\ UNCHANGED <<cards, mem, panicked>>
       \/ /\ selected_index < Len(word_index)
          /\ fault # "read"
          /\ selected_index + 1 \in DOMAIN cards
          /\ LET rowid       == selected_index + 1
                 row         == cards[rowid]
                 review_date == ParseDate(row.next_review)
                 new_box     == NewBox(success, row.box, row.attempts)
                 new_attempts == NewAttempts(success, row.box, row.attempts)
                 shrunk      == Len(word_index) - 1
             IN  \/ /\ NotDue(review_date, today)
                    /\ call' = Called("review", "gate")
                    /\ ret' = Ok
                    /\ UNCHANGED <<cards, mem, panicked>>
                 \/ /\ ~NotDue(review_date, today)
                    /\ fault = "write"
                    /\ call' = Called("review", "writefail")
                    /\ ret' = Err("SqliteFailure")
                    /\ UNCHANGED <<cards, mem, panicked>>
                 \/ /\ ~NotDue(review_date, today)
                    /\ fault = "none"
                    /\ new_box = 6
                    /\ cards' = Delete(cards, rowid)
                    /\ word_index' = Remove(word_index, selected_index)
                    /\ review_due' = Remove(review_due, selected_index)
                    /\ box_level' = Remove(box_level, selected_index)
                    /\ held' = Remove(held, selected_index)
                    /\ \/ /\ selected_index < shrunk
                          /\ UNCHANGED <<selected_index, panicked>>
                          /\ call' = Called("review", "graduate")
                          /\ ret' = Ok
                       \/ /\ selected_index >= shrunk
                          /\ shrunk >= 1
                          /\ selected_index' = shrunk - 1
                          /\ UNCHANGED panicked
                          /\ call' = Called("review", "graduate")
                          /\ ret' = Ok
                       \/ /\ selected_index >= shrunk
                          /\ shrunk = 0           \* 0 - 1 wraps (release build)
                          /\ selected_index' = USIZE_MAX
                          /\ UNCHANGED panicked
                          /\ call' = Called("review", "graduate")
                          /\ ret' = Ok
                       \/ /\ selected_index >= shrunk
                          /\ shrunk = 0           \* 0 - 1 overflows (debug build)
                          /\ panicked' = TRUE
                          /\ call' = Called("review", "panic")
                          /\ UNCHANGED <<selected_index, ret>>
                 \/ /\ ~NotDue(review_date, today)
                    /\ fault = "none"
                    /\ new_box # 6
                    /\ LET new_date == NextReview(today, new_box)
                       IN  /\ cards' = Update(cards, rowid, new_box,
                                              FormatDate(new_date), new_attempts)
                           /\ review_due' = [review_due EXCEPT ![selected_index + 1] = new_date]
                           /\ box_level' = [box_level EXCEPT ![selected_index + 1] = new_box]
                    /\ call' = Called("review", Path(success, row.box, row.attempts))
                    /\ ret' = Ok
                    /\ UNCHANGED <<selected_index, word_index, held, panicked>>
    /\ UNCHANGED <<today, created, cap>>

\* ------------------------------------------------------- the specification

Next ==
    \/ Tick
    \/ next
    \/ \E i \in Deltas : update_index_by(i)
    \/ \E k \in DOMAIN Entries, fault \in {"none", "write"} :
          add(Entries[k].word, Entries[k].definition, fault)
    \/ \E i \in {selected_index, Len(word_index)} : get_definition(i, "none")
    \/ get_definition(selected_index, "read")
    \/ \E success \in BOOLEAN, fault \in Faults : review(success, fault)

Spec == Init /\ [][Next]_vars

\* The same program in a session of up to WideMaxCreated cards.
SpecWide == InitWide /\ [][Next]_vars

\* ================================================================== claims

\* The card the in-memory position i (0-based) holds is the row ROWID i + 1.
PositionIsRow(i) ==
    /\ i + 1 \in DOMAIN cards
    /\ cards[i + 1].uid = held[i + 1]
    /\ cards[i + 1].word = word_index[i + 1]
    /\ ParseDate(cards[i + 1].next_review) = review_due[i + 1]
    /\ cards[i + 1].box = box_level[i + 1]

\* C1: in every reachable state, for every position i in 0..len-1 the card
\* held at in-memory position i is the persisted record with identity i + 1,
\* and the table holds exactly len records.
C1_PositionIsIdentity ==
    /\ Cardinality(DOMAIN cards) = Len(word_index)
    /\ \A i \in 0..(Len(word_index) - 1) : PositionIsRow(i)

\* C2: in every reachable state the three in-memory sequences are what a
\* fresh Leitner::new would load from the table at that moment.
C2_MemoryIsReload ==
    /\ word_index = LoadWords(cards)
    /\ review_due = LoadDue(cards)
    /\ box_level = LoadBoxes(cards)

\* C3: in every reachable state, after any sequence of operations (failed
\* ones included), word_index, review_due and box_level have the same length.
C3_SameLength ==
    /\ Len(word_index) = Len(review_due)
    /\ Len(review_due) = Len(box_level)

\* C3's case: a card was added, another graduated, and the last call failed.
C3_Witness ==
    /\ created = cap
    /\ Len(word_index) = created - 1
    /\ Len(box_level) = created - 1
    /\ ret.tag = "Err"

\* --------------------------------------------- review steps, for C4 to C10

\* The row review reads for the cursor, ROWID selected_index + 1.
CursorRowid == selected_index + 1
HasCursorRow == selected_index < Len(word_index) /\ CursorRowid \in DOMAIN cards
CursorRowDue == ParseDate(cards[CursorRowid].next_review) <= today

\* The step is a call review(success) with the connection working, on a row
\* that is due: the review passes the due gate.
ReviewApplied(success) ==
    /\ call'.op = "review"
    /\ HasCursorRow
    /\ CursorRowDue
    /\ review(success, "none")

C5_DemotionThreshold ==
    [][ /\ ReviewApplied(FALSE)
           => LET b == cards[CursorRowid].box
                  a == cards[CursorRowid].attempts
              IN  /\ CursorRowid \in DOMAIN cards'
                  /\ (b \in 2..5 /\ a = 0) => cards'[CursorRowid].box = b
                  /\ (b \in 2..5 /\ a >= 1) => cards'[CursorRowid].box = b - 1
                  /\ b = 1 => cards'[CursorRowid].box = 1
        /\ \A r \in DOMAIN cards \cap DOMAIN cards' :
              cards'[r].box < cards[r].box
              => /\ ReviewApplied(FALSE)
                 /\ r = CursorRowid
                 /\ cards[r].attempts >= 1
                 /\ cards[r].box > 1
      ]_vars

\* C5's case: a failed review has just demoted the row at the cursor to box 2.
C5_Witness ==
    /\ call.op = "review" /\ call.path = "demote"
    /\ HasCursorRow
    /\ cards[CursorRowid].box = 2
    /\ box_level[selected_index + 1] = 2

\* C6: every step that changes a row's box stores attempts = 0 for it, a step
\* raises a row's attempts only by exactly 1 and only with its box unchanged,
\* and a newly inserted row has attempts 0.
C6_AttemptReset ==
    [][ /\ \A r \in DOMAIN cards \cap DOMAIN cards' :
              /\ cards'[r].box # cards[r].box => cards'[r].attempts = 0
              /\ cards'[r].attempts > cards[r].attempts
                 => /\ cards'[r].attempts = cards[r].attempts + 1
                    /\ cards'[r].box = cards[r].box
        /\ \A r \in DOMAIN cards' \ DOMAIN cards : cards'[r].attempts = 0
      ]_vars

\* C6's case: a review has just changed the box of the row at the cursor,
\* whose attempts are 0, while another row has its failures counted.
C6_Witness ==
    /\ call.op = "review" /\ call.path \in {"promote", "demote"}
    /\ HasCursorRow
    /\ cards[CursorRowid].attempts = 0
    /\ \E r \in DOMAIN cards : cards[r].attempts >= 1

\* C7: in every reachable state every row and every entry of box_level has a
\* box in 1..5; a review whose new box would be 6 removes the row and one
\* entry of the vectors.
C7_BoxBounds ==
    /\ [](/\ \A r \in DOMAIN cards : cards[r].box \in 1..5
          /\ \A k \in DOMAIN box_level : box_level[k] \in 1..5)
    /\ [][ (ReviewApplied(TRUE) /\ cards[CursorRowid].box = 5)
           => /\ CursorRowid \notin DOMAIN cards'
              /\ Len(box_level') = Len(box_level) - 1
         ]_vars

\* C7's case: a review from box 5 has just removed a card, and a card remains.
C7_Witness ==
    /\ call.op = "review" /\ call.path = "graduate"
    /\ Len(box_level) >= 1
    /\ Cardinality(DOMAIN cards) >= 1

\* The interval table as the specification states it.
C8_Interval == <<1, 2, 4, 6, 10>>

\* C8: every review that passes the due gate and keeps the row sets its
\* next_review, in the table and in review_due at the cursor, to today +
\* interval(new box); a success stores box + 1, and a demotion from box 3
\* stores box 2 and today + 2.
C8_IntervalSet ==
    [][ \A success \in BOOLEAN :
          (ReviewApplied(success) /\ CursorRowid \in DOMAIN cards')
          => LET old == cards[CursorRowid]
                 new == cards'[CursorRowid]
                 date == today + C8_Interval[new.box]
             IN  /\ new.box \in 1..5
                 /\ new.next_review = FormatDate(date)
                 /\ ParseDate(new.next_review) = date
                 /\ review_due'[selected_index + 1] = date
                 /\ success => new.box = old.box + 1
                 /\ (~success /\ old.box = 3 /\ old.attempts >= 1)
                    => (new.box = 2 /\ ParseDate(new.next_review) = today + 2)
      ]_vars

\* C8's case: a successful review has just moved a row to box 4, on the
\* second day, and its next_review is six days on, in March.
C8_Witness ==
    /\ call.op = "review" /\ call.path = "promote"
    /\ HasCursorRow
    /\ cards[CursorRowid].box = 4
    /\ today = FirstDay + 1
    /\ cards[CursorRowid].next_review = <<2024, 3, 4>>
    /\ review_due[selected_index + 1] = today + 6

\* C9 as stated: a failed review that leaves the box unchanged keeps the box,
\* adds 1 to attempts, and leaves the due date unchanged, so the card is
\* still due.
C9_DueDateUnchanged ==
    [][ (ReviewApplied(FALSE)
           /\ cards[CursorRowid].box \in 2..5 /\ cards[CursorRowid].attempts = 0)
        => /\ CursorRowid \in DOMAIN cards'
           /\ cards'[CursorRowid].box = cards[CursorRowid].box
           /\ cards'[CursorRowid].attempts = cards[CursorRowid].attempts + 1
           /\ cards'[CursorRowid].next_review = cards[CursorRowid].next_review
           /\ review_due'[selected_index + 1] = review_due[selected_index + 1]
           /\ ParseDate(cards'[CursorRowid].next_review) <= today
      ]_vars

\* C9 amended: a failed review that leaves the box unchanged (a first failure
\* at box 2..5, any failure at box 1) keeps the box, adds 1 to attempts, and
\* sets the due date to today + interval(box) in the table and in review_due,
\* so the card is not due again before that day.
C9_DueDateRescheduled ==
    [][ (ReviewApplied(FALSE)
           /\ (cards[CursorRowid].box = 1 \/ cards[CursorRowid].attempts = 0))
        => /\ CursorRowid \in DOMAIN cards'
           /\ cards'[CursorRowid].box = cards[CursorRowid].box
           /\ box_level'[selected_index + 1] = cards[CursorRowid].box
           /\ cards'[CursorRowid].attempts = cards[CursorRowid].attempts + 1
           /\ ParseDate(cards'[CursorRowid].next_review)
                 = today + C8_Interval[cards[CursorRowid].box]
           /\ review_due'[selected_index + 1]
                 = today + C8_Interval[cards[CursorRowid].box]
           /\ ParseDate(cards'[CursorRowid].next_review) > today
      ]_vars

\* C9's case: a first failure at box 3 has just been recorded: box 3,
\* attempts 1, due four days on.
C9_Witness ==
    /\ call.op = "review" /\ call.path = "retry"
    /\ HasCursorRow
    /\ cards[CursorRowid].box = 3
    /\ cards[CursorRowid].attempts = 1
    /\ ParseDate(cards[CursorRowid].next_review) = today + 4
    /\ review_due[selected_index + 1] = today + 4

\* The rows of the table that are the card uid.
RowsOf(table, uid) == {r \in DOMAIN table : table[r].uid = uid}

\* C10: when review(true) is applied (the connection working) with the
\* cursor on a card whose record is due and at box 5, the record of that same
\* card is deleted and its position is removed from the three vectors; all
\* other cards stay, in the same order, in the table and in memory.
C10_GraduationRemovesCard ==
    [][ (/\ call'.op = "review"
         /\ selected_index < Len(word_index)
         /\ review(TRUE, "none")
         /\ \E r \in RowsOf(cards, held[selected_index + 1]) :
               cards[r].box = 5 /\ ParseDate(cards[r].next_review) <= today)
        => LET uid == held[selected_index + 1]
           IN  /\ RowsOf(cards', uid) = {}
               /\ DOMAIN cards' = DOMAIN cards \ RowsOf(cards, uid)
               /\ \A r \in DOMAIN cards' : cards'[r] = cards[r]
               /\ held' = Remove(held, selected_index)
               /\ word_index' = Remove(word_index, selected_index)
               /\ review_due' = Remove(review_due, selected_index)
               /\ box_level' = Remove(box_level, selected_index)
      ]_vars

\* ------------------------------------------------- the cursor, C11 to C13

\* The step is a review that removed a position from the vectors.
GraduationStep == call'.op = "review" /\ Len(word_index') = Len(word_index) - 1

\* C11: after a graduation removes a card, a cursor past the end of the
\* shrunk collection is set to its last position; if the removed card was the
\* only one, review returns Ok and the cursor is left at 0, with no underflow
\* and no abort.
C11_CursorAfterGraduation ==
    [][ GraduationStep
        => /\ ~panicked'
           /\ ret' = Ok
           /\ (Len(word_index') >= 1 /\ selected_index >= Len(word_index'))
                 => selected_index' = Len(word_index') - 1
           /\ Len(word_index') = 0 => selected_index' = 0
      ]_vars

\* C12: in every reachable state, whenever the collection is non-empty the
\* cursor satisfies 0 <= cursor < len.
C12_CursorInRange ==
    Len(word_index) > 0 => (0 <= selected_index /\ selected_index < Len(word_index))

\* C13: update_index_by(i) on a non-empty collection sets the cursor to
\* cursor + i clamped to 0..len-1 and changes nothing else; on an empty
\* collection it changes nothing and does not abort.
C13_MoveByClamps ==
    [][ \A i \in Deltas :
          (call'.op = "update_index_by" /\ update_index_by(i))
          => /\ ~panicked'
             /\ UNCHANGED <<cards, word_index, review_due, box_level>>
             /\ IF Len(word_index) > 0
                THEN selected_index' = Clamp(selected_index + i, 0, Len(word_index) - 1)
                ELSE selected_index' = selected_index
      ]_vars

\* ------------------------------------------------ failures, C14 to C17

\* The paths of add and review on which a statement of the connection failed.
FailurePaths == {"writefail", "readfail", "norow"}

C15_NeverAborts == ~panicked

\* The cursor is out of range: review takes its else branch.
OutOfRange == ~(selected_index < Len(word_index))

\* C16: review called with the cursor out of range returns the error
\* InvalidQuery and changes neither the table nor the memory; review returns
\* that error in no other case.
C16_OutOfRangeError ==
    [][ call'.op = "review"
        => /\ OutOfRange
              => /\ ret' = Err("InvalidQuery")
                 /\ cards' = cards
                 /\ mem' = mem
                 /\ ~panicked'
           /\ ~OutOfRange
              => (call'.path = "panic" \/ ret' # Err("InvalidQuery"))
      ]_vars

\* C16's case: review has just returned InvalidQuery on a collection that
\* holds a card, the cursor being past its end.
C16_Witness ==
    /\ call.op = "review" /\ call.path = "range"
    /\ ret = Err("InvalidQuery")
    /\ Len(word_index) > 0
    /\ selected_index >= Len(word_index)

\* C17 as stated: review called with the cursor out of range returns success
\* and changes nothing.
C17_OutOfRangeNoop ==
    [][ (call'.op = "review" /\ OutOfRange)
        => (ret' = Ok /\ cards' = cards /\ mem' = mem)
      ]_vars

\* C17 amended: review called with the cursor out of range changes nothing
\* and returns an error, never success; a review that returns Ok had its
\* cursor in range.
C17_OutOfRangeFails ==
    [][ /\ (call'.op = "review" /\ OutOfRange)
           => (ret'.tag = "Err" /\ ret' # Ok /\ UNCHANGED <<cards, mem, panicked>>)
        /\ (call'.op = "review" /\ call'.path # "panic" /\ ret' = Ok)
           => selected_index < Len(word_index)
      ]_vars

\* C17's case: review has just failed on an empty collection, cursor 0.
C17_Witness ==
    /\ call.op = "review" /\ call.path = "range"
    /\ ret.tag = "Err"
    /\ word_index = <<>>
    /\ selected_index = 0

\* ------------------------------------- add, next, get_definition: C18 to C20

\* C18: a successful add(word, definition) inserts exactly one new row, with
\* box 1, next_review = today + 1 and attempts 0, and appends word, today + 1
\* and 1 to the three vectors; the cursor and the rows already there are
\* unchanged, also when the word is already present.
C18_AddAppends ==
    [][ (call'.op = "add" /\ ret' = Ok)
        => \E k \in DOMAIN Entries :
              /\ add(Entries[k].word, Entries[k].definition, "none")
              /\ \E id \in DOMAIN cards' \ DOMAIN cards :
                    /\ DOMAIN cards' = DOMAIN cards \cup {id}
                    /\ cards'[id].word = Entries[k].word
                    /\ cards'[id].definition = Entries[k].definition
                    /\ cards'[id].box = 1
                    /\ cards'[id].attempts = 0
                    /\ cards'[id].next_review = FormatDate(today + 1)
                    /\ ParseDate(cards'[id].next_review) = today + 1
              /\ \A r \in DOMAIN cards : cards'[r] = cards[r]
              /\ word_index' = Append(word_index, Entries[k].word)
              /\ review_due' = Append(review_due, today + 1)
              /\ box_level' = Append(box_level, 1)
              /\ selected_index' = selected_index
      ]_vars

\* C18's case: add has just inserted a word that was already present: two
\* rows and two positions hold it, as two cards.
C18_Witness ==
    /\ call.op = "add" /\ call.path = "inserted"
    /\ \E r, q \in DOMAIN cards :
          /\ r # q
          /\ cards[r].word = cards[q].word
          /\ cards[r].uid # cards[q].uid
          /\ cards[q].attempts = 0 /\ cards[q].box = 1
          /\ ParseDate(cards[q].next_review) = today + 1
    /\ Len(word_index) = 2
    /\ word_index[1] = word_index[2]

\* The positions from the cursor on whose due date is on or before today.
DueFromCursor ==
    {p \in selected_index..(Len(word_index) - 1) : review_due[p + 1] <= today}

\* C19: on a non-empty collection next leaves the cursor at the smallest
\* position p >= the old cursor whose due date is on or before today, or at
\* the last position if there is none; it never moves the cursor backward,
\* changes nothing but the cursor, and does nothing on an empty collection.
C19_AdvanceToDue ==
    [][ call'.op = "next"
        => /\ UNCHANGED <<cards, word_index, review_due, box_level, panicked>>
           /\ selected_index' >= selected_index
           /\ IF word_index = <<>>
              THEN selected_index' = selected_index
              ELSE IF DueFromCursor # {}
                   THEN /\ selected_index' \in DueFromCursor
                        /\ \A p \in DueFromCursor : selected_index' <= p
                   ELSE selected_index' = Len(word_index) - 1
      ]_vars

\* C20: get_definition(i), when it returns, returns the definition (its
\* carriage returns replaced) of the card held at in-memory position i, or
\* NotFound when no row resolves for the position (i out of range included),
\* and changes neither the table, nor the vectors, nor the cursor.
C20_DefinitionOfPosition ==
    [][ \A i \in {selected_index, Len(word_index)} :
          (call'.op = "get_definition" /\ call'.path \in {"found", "notfound"}
              /\ get_definition(i, "none"))
          => /\ cards' = cards
             /\ mem' = mem
             /\ IF i < Len(word_index) /\ i + 1 \in DOMAIN cards
                THEN \E r \in RowsOf(cards, held[i + 1]) :
                        ret' = Text(ReplaceCR(cards[r].definition))
                ELSE ret' = Text(NotFound)
      ]_vars

\* ------------------------------------------- identities and frame, C21 to C25

\* C21: a ROWID is never reused: the ROWID an add assigns was held by no
\* earlier card. (The session's cards took the ROWIDs 1..created as long as
\* none was reused, so a ROWID not held before is one above created.)
C21_IdentityNeverReused ==
    [][ \A id \in DOMAIN cards' \ DOMAIN cards : id > created ]_vars

\* C22: a review changes at most the card under the cursor: the row of every
\* other card and every other position of the vectors is unchanged, a review
\* that removes nothing changes neither word_index nor the cursor, and the row
\* written is the row of the card whose review_due and box_level are updated.
C22_ReviewFrame ==
    [][ (call'.op = "review" /\ ~OutOfRange)
        => LET uid == held[selected_index + 1]
           IN  /\ \A r \in DOMAIN cards :
                     cards[r].uid # uid => (r \in DOMAIN cards' /\ cards'[r] = cards[r])
               /\ \A r \in DOMAIN cards \cap DOMAIN cards' :
                     cards'[r] # cards[r]
                     => /\ cards[r].uid = uid
                        /\ review_due'[selected_index + 1] = ParseDate(cards'[r].next_review)
                        /\ box_level'[selected_index + 1] = cards'[r].box
               /\ IF Len(word_index') = Len(word_index)
                  THEN /\ word_index' = word_index
                       /\ selected_index' = selected_index
                       /\ \A k \in DOMAIN review_due :
                             k # selected_index + 1
                             => /\ review_due'[k] = review_due[k]
                                /\ box_level'[k] = box_level[k]
                  ELSE /\ word_index' = Remove(word_index, selected_index)
                       /\ review_due' = Remove(review_due, selected_index)
                       /\ box_level' = Remove(box_level, selected_index)
      ]_vars

\* C23: with the connection working, review with the cursor in range finds
\* the row of the cursor position and returns Ok: it never fails with
\* QueryReturnedNoRows.
C23_ReviewFindsRow ==
    [][ \A success \in BOOLEAN :
          (call'.op = "review" /\ ~OutOfRange /\ review(success, "none"))
          => /\ HasCursorRow
             /\ call'.path # "norow"
             /\ call'.path # "panic" => ret' = Ok
      ]_vars

\* C24: a review that changes a row without removing it leaves its
\* next_review, in the table and in review_due, strictly after today, and the
\* cursor where it was; a review called next on the same day (its guard read
\* succeeding) returns Ok and changes nothing; and no step changes a row that
\* is not due, so box and attempts change at most once per day.
C24_OncePerDay ==
    [][ /\ \A success \in BOOLEAN :
              (ReviewApplied(success) /\ CursorRowid \in DOMAIN cards')
              => /\ ParseDate(cards'[CursorRowid].next_review) > today
                 /\ review_due'[selected_index + 1] > today
                 /\ selected_index' = selected_index
        /\ (call.op = "review" /\ call.path \in {"promote", "demote", "retry"}
              /\ call'.op = "review" /\ call'.path # "readfail")
           => (ret' = Ok /\ call'.path = "gate" /\ cards' = cards /\ mem' = mem)
        /\ \A r \in DOMAIN cards \cap DOMAIN cards' :
              cards'[r] # cards[r]
              => /\ ParseDate(cards[r].next_review) <= today
                 /\ ParseDate(cards'[r].next_review) > today
      ]_vars

\* C24's case: a second review of the row that a failed review changed
\* earlier today (box 3, attempts 1, due in four days) has just returned Ok
\* at the gate.
C24_Witness ==
    /\ call.op = "review" /\ call.path = "gate" /\ ret = Ok
    /\ HasCursorRow
    /\ cards[CursorRowid].box = 3
    /\ cards[CursorRowid].attempts = 1
    /\ ParseDate(cards[CursorRowid].next_review) = today + 4
    /\ review_due[selected_index + 1] = today + 4

\* C25: every successful review of a card that is due and under the cursor
\* moves that card one box up, and from box 5 removes it from the table and
\* from memory, whatever happened to other cards before; so five of them take
\* a card added at box 1 through 2, 3, 4, 5 and out.
C25_SuccessPromotes ==
    [][ (call'.op = "review" /\ ~OutOfRange /\ review(TRUE, "none"))
        => LET uid == held[selected_index + 1]
           IN  \A r \in RowsOf(cards, uid) :
                  ParseDate(cards[r].next_review) <= today
                  => IF cards[r].box = 5
                     THEN /\ RowsOf(cards', uid) = {}
                          /\ \A k \in DOMAIN held' : held'[k] # uid
                     ELSE /\ r \in DOMAIN cards'
                          /\ cards'[r].uid = uid
                          /\ cards'[r].box = cards[r].box + 1
                          /\ box_level'[selected_index + 1] = cards[r].box + 1
      ]_vars

====
